---- MODULE Spec2Model ----
(***************************************************************************)
(* Model of the source polling engine of multi-scrobbler.                  *)
(*                                                                         *)
(* Spec, SpecQuiet   one poller (AbstractSource.startPolling): its cursor  *)
(*                   lastTrackPlayedAt, the quiet-cycle counter            *)
(*                   checkCount, the close-to-interval delay and the       *)
(*                   adaptive inter-cycle sleep.                           *)
(* SpecLifecycle     the same poller with a caller that stops and          *)
(*                   restarts it and an upstream that hands out a record   *)
(*                   without playDate.                                     *)
(* SpecOverlap       calls of startPolling that overlap on one poller.     *)
(* SpecMatch         playObjDataMatch on any two plays.                    *)
(* SpecRecon         the recent window of YTMusicSource.getRecentlyPlayed. *)
(* SpecLastfm        LastfmSource.getRecentlyPlayed on the answers of      *)
(*                   user.getRecentTracks.                                 *)
(* SpecHistorical    LastfmSource.processHistoricalPlays on a batch of     *)
(*                   backlogged plays.                                     *)
(* SpecYTPoller      the polling loop of startPolling fed by               *)
(*                   YTMusicSource.getRecentlyPlayed.                      *)
(* SpecSingle        the invocations of a function wrapped by makeSingle.  *)
(*                                                                         *)
(* Time is in whole seconds, as the code compares dayjs values through     *)
(* .unix().  One action is one synchronous run of an async function        *)
(* between two awaits.                                                     *)
(***************************************************************************)
EXTENDS Integers, Sequences, FiniteSets, TLC

\* ---------------------------------------------------------------- bounds

\* longest list one fetch returns
MaxFetch == 2
\* invocations of one function wrapped by makeSingle
MaxInvocations == 3
\* yields of the generator that function wraps
MaxYields == 2
\* the invocations, in the order they start
Invocations == 1..MaxInvocations
\* fetches issued over one run of the model
MaxCycles == 6
\* fetches issued over one run of the model of a quiet upstream
MaxQuietCycles == 20
\* fetches issued over one run of the model of a stopped and restarted poller
MaxLifecycleCycles == 5
\* calls of startPolling that may overlap
MaxLoops == 3
\* calls of startPolling over one run of the model
MaxSessions == 2
\* cap of the observability counter tracksDiscovered
MaxDiscovered == 2

\* ------------------------------------------------------ program constants

DefaultInterval == 30
CloseThresholdSec == 5
CloseDelaySec == 10
QuietCycleThreshold == 5
MaxInterval == 600
BackoffTriggerFactor == 10
BackoffTriggerCap == 600
BackoffFactor == 5
BackoffCap == 300

\* plays the recent window of the YouTube Music source holds (20 in the code)
MaxWindow == 4
\* longest artist list of a compared play
MaxArtists == 2

\* meta.sourceId === undefined
NoSourceId == "undefined"

\* ------------------------------------------------------------- helpers

Abs(x) == IF x < 0 THEN -x ELSE x

Min(a, b) == IF a < b THEN a ELSE b

NoRepeat(s) == \A i, j \in 1..Len(s) : i # j => s[i] # s[j]

RECURSIVE SeqsUpTo(_, _)
\* the sequences without repetition of at most n elements of S
SeqsUpTo(S, n) ==
    IF n = 0 THEN {<<>>}
    ELSE LET shorter == SeqsUpTo(S, n - 1)
         IN  shorter \cup {t \in {Append(s, x) : s \in shorter, x \in S} : NoRepeat(t)}

\* ---------------------------------------------------------- play records

\* a formatted play as getRecentlyPlayed returns it: data.playDate in unix
\* seconds, meta.trackId, meta.newFromSource
Play(id, date) == [trackId |-> id, playDate |-> date, newFromSource |-> FALSE]

\* a formatted record that carries no data.playDate
UndatedPlay(id) == [trackId |-> id, newFromSource |-> FALSE]

\* data.playDate is not undefined
HasPlayDate(playObj) == "playDate" \in DOMAIN playObj

\* what the upstream may hold: a play older than the process start, a play
\* exactly CloseThresholdSec before the second default poll, a play shortly
\* before the third one
UpstreamPlays == {Play("a", -10), Play("a", 25), Play("b", 58)}

\* a quiet upstream: the old play and one later play
QuietUpstreamPlays == {Play("a", -10), Play("b", 58)}

\* an upstream that also hands out a record without playDate
LifecyclePlays == {Play("a", 25), Play("b", 58), UndatedPlay("c")}

\* the lists getRecentlyPlayed may resolve with at time t: plays that have
\* started by then and records without a date, in any order
FetchResults(plays, t) ==
    SeqsUpTo({p \in plays : HasPlayDate(p) => p.playDate <= t}, MaxFetch)

\* this.config of the poller: with or without an interval
Configs == {[name |-> 0], [name |-> 0, interval |-> 120],
            [name |-> 0, interval |-> 400], [name |-> 0, interval |-> 600]}

DefaultConfig == [name |-> 0]


\* { interval = 30 } = this.config
Interval(cfg) == IF "interval" \in DOMAIN cfg THEN cfg.interval ELSE DefaultInterval

\* ------------------------------------------------------------------ state

VARIABLES
    upstream,           \* the plays the upstream service may return
    cycleLimit,         \* fetches the model lets one run issue
    pc,                 \* where the async function startPolling is suspended
    polling,            \* this.polling
    tracksDiscovered,   \* this.tracksDiscovered
    config,             \* this.config
    clock,              \* the wall clock, unix seconds
    lastTrackPlayedAt,  \* local of startPolling (unix seconds)
    checkCount,         \* local of startPolling
    now,                \* local of the cycle: dayjs() taken after the fetch
    playObjs,           \* local of the cycle: the list handed to scrobble
    newTracksFound,     \* local of the cycle
    closeToInterval,    \* local of the cycle
    sleepTime,          \* local of the cycle
    scrobbleCall,       \* the last call of allClients.scrobble: its options and time
    fetched,            \* what the last getRecentlyPlayed of this session returned
    cycle,              \* fetches issued so far
    session,            \* calls of startPolling so far
    sessionCycle,       \* fetches that returned in this session
    emitted,            \* plays flagged new in earlier cycles of this session
    delayedFor,         \* plays whose detection made an earlier cycle wait
    waited,             \* seconds this cycle spent in the close-to-interval delay
    emptyCycles,        \* completed cycles without discovery since the last one
    runStartSince,      \* seconds since the last play at the first of those cycles
    fetchesSorted,      \* every list fetched in this session was oldest-first
    promise,            \* the promise the last call of startPolling returned
    stopSnap,           \* the poller state when a stop arrived during a fetch
    restartedFrom,      \* the pc at which the last call of startPolling arrived
    loopPc,             \* overlapping calls of startPolling: where each one stands
    stoppedAsleep,      \* the calls that were in the inter-cycle sleep at a stop
    matchA,             \* playObjDataMatch: its first argument
    matchB,             \* playObjDataMatch: its second argument
    matchDone,          \* playObjDataMatch has returned
    matchResult,        \* playObjDataMatch: what it returned
    recentlyPlayed,     \* YTMusicSource.recentlyPlayed: track ids, newest first
    newPlays,           \* what the last getRecentlyPlayed of YTMusicSource returned
    ytPrev,             \* recentlyPlayed before that call
    ytCur,              \* the history list of that call, cut to the window
    ytList,             \* the history list of that call as it was fetched
    ytEvaluated,        \* the comparisons that call evaluated
    ytCall,             \* that call: "none", "hydrate" or "poll"
    ytWarned,           \* that call logged the warning of an inconsistent order
    ytNow,              \* dayjs() of that call, unix seconds
    lfResp,             \* Last.fm: the track list of the last answer
    lfHistory,          \* what the last LastfmSource.getRecentlyPlayed returned
    lfNow,              \* what that call handed to processRecentPlays
    lfWarned,           \* the items that call dropped with a warning
    lfThrew,            \* that call threw
    lfClock,            \* dayjs() of that call, unix seconds
    lfFetches,          \* the calls made so far
    hsDiscovered,       \* processHistoricalPlays: the plays discovered before the call
    hsInput,            \* its argument, as the call leaves it
    hsFailing,          \* the places whose play timePassesScrobbleThreshold fails
    hsReturned,         \* what the call returned
    hsCalls,            \* the methods the call invoked, in order
    hsDone,             \* the call has returned
    ypPc,               \* the loop over YouTube Music: "new", "hydrated", "polling"
    ypWindow,           \* YTMusicSource.recentlyPlayed
    ypCursor,           \* the loop's lastTrackPlayedAt
    ypCursorBefore,     \* the loop's lastTrackPlayedAt when the last cycle began
    ypNow,              \* the instant of the last fetch, or of the next one
    ypNew,              \* what getRecentlyPlayed returned in the last cycle
    ypFound,            \* newTracksFound of the last cycle
    ypCycles,           \* the cycles run so far
    sgGenerator,        \* makeSingle: what the wrapped generator yields, in order
    sgStarted,          \* the invocations of the wrapper started so far
    sgPreviousResolve,  \* the invocation whose promise previousResolve settles
    sgAborted,          \* the invocations whose localSinglePromise holds abortSymbol
    sgPc,               \* each invocation: "idle", "awaiting" or "returned"
    sgRace,             \* what the Promise.race an invocation awaits settled to
    sgNexts,            \* the next() calls each invocation made on its generator
    sgResult            \* what each invocation resolved to

\* the state of the comparison of two plays
matchVars == <<matchA, matchB, matchDone, matchResult>>

\* the state of the YouTube Music source
reconVars == <<recentlyPlayed, newPlays, ytPrev, ytCur, ytEvaluated, ytCall,
               ytWarned, ytNow, ytList>>

\* the state of the Last.fm source
lastfmVars == <<lfResp, lfHistory, lfNow, lfWarned, lfThrew, lfClock, lfFetches>>

\* the state of the backfill of historical plays
histVars == <<hsDiscovered, hsInput, hsFailing, hsReturned, hsCalls, hsDone>>

\* the state of the polling loop over the YouTube Music source
ypVars == <<ypPc, ypWindow, ypCursor, ypCursorBefore, ypNow, ypNew, ypFound,
            ypCycles>>

\* the state of the invocations of a function wrapped by makeSingle
singleVars == <<sgGenerator, sgStarted, sgPreviousResolve, sgAborted, sgPc,
                sgRace, sgNexts, sgResult>>

\* the state of the models added last
sideVars == <<histVars, ypVars, singleVars>>

\* the state of the models that stand beside the single poller
nonPollerVars == <<loopPc, stoppedAsleep, matchVars, reconVars, lastfmVars,
                   sideVars>>

vars == <<upstream, cycleLimit, pc, polling, tracksDiscovered, config, clock, lastTrackPlayedAt,
          checkCount, now, playObjs, newTracksFound, closeToInterval, sleepTime,
          scrobbleCall, fetched, cycle, session, sessionCycle, emitted,
          delayedFor, waited, emptyCycles, runStartSince, fetchesSorted,
          promise, stopSnap, restartedFrom, nonPollerVars>>

\* no stop has arrived during the fetch in flight
NoSnap == [taken |-> FALSE, lastTrackPlayedAt |-> 0, checkCount |-> 0,
           tracksDiscovered |-> 0]

\* a list in oldest-first order of playDate
OldestFirst(list) ==
    \A i, j \in 1..Len(list) :
        (i < j /\ HasPlayDate(list[i]) /\ HasPlayDate(list[j]))
            => list[i].playDate <= list[j].playDate

\* this.identifier and this.clients, set once by the constructor
Identifier == "Source - main"

Clients == {"client1", "client2"}

NoCall == [forceRefresh |-> FALSE, at |-> -1, cycle |-> 0,
           scrobbleFrom |-> "none", scrobbleTo |-> {}]

\* the plays of a list that carry newFromSource = true, without the flag
NewPlays(list) ==
    {[trackId |-> list[i].trackId, playDate |-> list[i].playDate] :
        i \in {j \in 1..Len(list) : list[j].newFromSource}}

\* ------------------------------------------------------------ classification

\* AbstractSource.recentlyPlayedTrackIsValid
RecentlyPlayedTrackIsValid(playObj) == TRUE

\* a closeness test that also takes a play exactly 5 seconds away
IsClose_Inclusive(nowSecs, playDate) == Abs(nowSecs - playDate) <= CloseThresholdSec

\* a closeness test with a window of most of a minute
IsClose_WideWindow(nowSecs, playDate) ==
    Abs(nowSecs - playDate) < CloseThresholdSec * CloseDelaySec

\* Math.abs(now.unix() - playDate.unix()) < 5
IsClose(nowSecs, playDate) == Abs(nowSecs - playDate) < CloseThresholdSec

\* a callback that moves the cursor to every valid play, new or not
ReduceStep_AlwaysAdvance(acc, playObj, cursor, nowSecs) ==
    IF RecentlyPlayedTrackIsValid(playObj)
    THEN IF ~HasPlayDate(playObj)
         THEN [acc EXCEPT !.threw = TRUE]
         ELSE
         IF playObj.playDate > cursor
         THEN [plays |-> Append(acc.plays, [playObj EXCEPT !.newFromSource = TRUE]),
               lastTrackPlayedAt |-> playObj.playDate,
               newTracksFound |-> TRUE,
               closeToInterval |-> IF acc.closeToInterval = FALSE
                                   THEN IsClose(nowSecs, playObj.playDate)
                                   ELSE acc.closeToInterval,
               threw |-> FALSE]
         ELSE [acc EXCEPT !.plays = Append(@, playObj),
                          !.lastTrackPlayedAt = playObj.playDate]
    ELSE acc

\* a callback that leaves out the records that are not new
ReduceStep_DropsOld(acc, playObj, cursor, nowSecs) ==
    IF RecentlyPlayedTrackIsValid(playObj)
    THEN IF ~HasPlayDate(playObj)
         THEN [acc EXCEPT !.threw = TRUE]
         ELSE
         IF playObj.playDate > cursor
         THEN [plays |-> Append(acc.plays, [playObj EXCEPT !.newFromSource = TRUE]),
               lastTrackPlayedAt |-> playObj.playDate,
               newTracksFound |-> TRUE,
               closeToInterval |-> IF acc.closeToInterval = FALSE
                                   THEN IsClose(nowSecs, playObj.playDate)
                                   ELSE acc.closeToInterval,
               threw |-> FALSE]
         ELSE acc
    ELSE acc

\* the callback of playObjs.reduce: acc carries plays and lastTrackPlayedAt,
\* newTracksFound and closeToInterval are the closure's variables; cursor is
\* the loop's lastTrackPlayedAt, which the callback reads and never writes.
\* playDate.unix() of a record without playDate is a TypeError: threw
ReduceStep(acc, playObj, cursor, nowSecs) ==
    IF RecentlyPlayedTrackIsValid(playObj)
    THEN IF ~HasPlayDate(playObj)
         THEN [acc EXCEPT !.threw = TRUE]
         ELSE
         IF playObj.playDate > cursor
         THEN [plays |-> Append(acc.plays, [playObj EXCEPT !.newFromSource = TRUE]),
               lastTrackPlayedAt |-> playObj.playDate,
               newTracksFound |-> TRUE,
               closeToInterval |-> IF acc.closeToInterval = FALSE
                                   THEN IsClose(nowSecs, playObj.playDate)
                                   ELSE acc.closeToInterval,
               threw |-> FALSE]
         ELSE [acc EXCEPT !.plays = Append(@, playObj)]
    ELSE acc

RECURSIVE Reduce(_, _, _, _, _)
Reduce(list, i, acc, cursor, nowSecs) ==
    IF i > Len(list) \/ acc.threw THEN acc
    ELSE Reduce(list, i + 1, ReduceStep(acc, list[i], cursor, nowSecs), cursor, nowSecs)

\* playObjs.reduce(..., {plays: [], lastTrackPlayedAt})
PlayInfo(list, cursor, nowSecs) ==
    Reduce(list, 1,
           [plays |-> <<>>, lastTrackPlayedAt |-> cursor,
            newTracksFound |-> FALSE, closeToInterval |-> FALSE, threw |-> FALSE],
           cursor, nowSecs)

\* ------------------------------------------------------------ adaptive sleep

\* a sleep that backs off whatever the interval is
SleepTime_NoMaxInterval(interval, count, nowSecs, cursor) ==
    IF count > QuietCycleThreshold
       /\ Abs(nowSecs - cursor) >= Min(interval * BackoffTriggerFactor, BackoffTriggerCap)
    THEN Min(interval * BackoffFactor, BackoffCap)
    ELSE interval

\* a sleep that backs off one quiet cycle early
SleepTime_EarlyBackoff(interval, count, nowSecs, cursor) ==
    IF count >= QuietCycleThreshold /\ interval < MaxInterval
       /\ Abs(nowSecs - cursor) >= Min(interval * BackoffTriggerFactor, BackoffTriggerCap)
    THEN Min(interval * BackoffFactor, BackoffCap)
    ELSE interval

\* the sleep of one cycle, from the interval, checkCount, the cycle's now and
\* the cursor
SleepTime(interval, count, nowSecs, cursor) ==
    IF count > QuietCycleThreshold /\ interval < MaxInterval
    THEN LET lastPlayToNowSecs == Abs(nowSecs - cursor)
             backoffThreshold == Min(interval * BackoffTriggerFactor, BackoffTriggerCap)
         IN  IF lastPlayToNowSecs >= backoffThreshold
             THEN Min(interval * BackoffFactor, BackoffCap)
             ELSE interval
    ELSE interval

\* ------------------------------------------------------------------ actions

Started ==
    /\ pc = "idle"
    /\ polling = FALSE
    /\ tracksDiscovered = 0
    /\ clock = 0
    /\ lastTrackPlayedAt = 0
    /\ checkCount = 0
    /\ now = 0
    /\ playObjs = <<>>
    /\ newTracksFound = FALSE
    /\ closeToInterval = FALSE
    /\ sleepTime = 0
    /\ scrobbleCall = NoCall
    /\ fetched = <<>>
    /\ cycle = 0
    /\ session = 0
    /\ sessionCycle = 0
    /\ emitted = {}
    /\ delayedFor = {}
    /\ waited = 0
    /\ emptyCycles = 0
    /\ runStartSince = 0
    /\ fetchesSorted = TRUE
    /\ promise = "none"
    /\ stopSnap = NoSnap
    /\ restartedFrom = "none"

\* a play as playObjDataMatch reads it: meta.source, meta.sourceId
\* (NoSourceId when undefined), data.track, data.album, data.artists
MatchPlay(source, sourceId, track, album, artists) ==
    [source |-> source, sourceId |-> sourceId, track |-> track,
     album |-> album, artists |-> artists]

\* the artist lists of a compared play, repeated names included
ArtistLists == UNION {[1..n -> {"x", "y"}] : n \in 0..MaxArtists}

\* the plays playObjDataMatch is applied to
MatchPlays ==
    {MatchPlay(source, sourceId, track, album, artists) :
        source \in {"s1", "s2"}, sourceId \in {NoSourceId, "i1", "i2"},
        track \in {"t1", "t2"}, album \in {"l1", "l2"}, artists \in ArtistLists}

\* xs.every(x => ys.includes(x))
Every(xs, ys) == \A i \in 1..Len(xs) : \E j \in 1..Len(ys) : ys[j] = xs[i]

\* playObjDataMatch of utils
PlayObjDataMatch(a, b) ==
    IF /\ a.source = b.source
       /\ a.sourceId # NoSourceId
       /\ b.sourceId # NoSourceId
       /\ a.sourceId # b.sourceId
    THEN FALSE
    ELSE IF a.track # b.track THEN FALSE
    ELSE IF a.album # b.album THEN FALSE
    ELSE IF Len(a.artists) # Len(b.artists) THEN FALSE
    ELSE IF ~Every(a.artists, b.artists) /\ Every(b.artists, a.artists) THEN FALSE
    ELSE TRUE

\* no comparison of two plays is made
NoMatch ==
    /\ matchA = MatchPlay("s1", NoSourceId, "t1", "l1", <<>>)
    /\ matchB = MatchPlay("s1", NoSourceId, "t1", "l1", <<>>)
    /\ matchDone = FALSE
    /\ matchResult = FALSE

\* the YouTube Music source after construction
NoRecon ==
    /\ recentlyPlayed = <<>>
    /\ newPlays = <<>>
    /\ ytPrev = <<>>
    /\ ytCur = <<>>
    /\ ytList = <<>>
    /\ ytEvaluated = {}
    /\ ytCall = "none"
    /\ ytWarned = FALSE
    /\ ytNow = 0

\* no loop over a YouTube Music source
NoYp ==
    /\ ypPc = "new"
    /\ ypWindow = <<>>
    /\ ypCursor = 0
    /\ ypCursorBefore = 0
    /\ ypNow = 0
    /\ ypNew = <<>>
    /\ ypFound = FALSE
    /\ ypCycles = 0

\* a wrapper of makeSingle that was never invoked
NoSingle ==
    /\ sgGenerator = <<>>
    /\ sgStarted = 0
    /\ sgPreviousResolve = 0
    /\ sgAborted = {}
    /\ sgPc = [i \in Invocations |-> "idle"]
    /\ sgRace = [i \in Invocations |-> "none"]
    /\ sgNexts = [i \in Invocations |-> 0]
    /\ sgResult = [i \in Invocations |-> "none"]

\* no call of processHistoricalPlays, nothing discovered
NoHist ==
    /\ hsDiscovered = {}
    /\ hsInput = <<>>
    /\ hsFailing = {}
    /\ hsReturned = <<>>
    /\ hsCalls = <<>>
    /\ hsDone = FALSE

\* the Last.fm source after construction, 100 seconds into the epoch
NoLastfm ==
    /\ lfResp = <<>>
    /\ lfHistory = <<>>
    /\ lfNow = <<>>
    /\ lfWarned = {}
    /\ lfThrew = FALSE
    /\ lfClock = 100
    /\ lfFetches = 0

\* no overlapping call of startPolling has been made
NoLoops ==
    /\ loopPc = [i \in 1..MaxLoops |-> "none"]
    /\ stoppedAsleep = {}

\* a poller of any configuration in front of a busy upstream
Init ==
    /\ Started
    /\ NoLoops
    /\ NoMatch
    /\ NoRecon
    /\ NoLastfm
    /\ NoHist
    /\ NoYp
    /\ NoSingle
    /\ config \in Configs
    /\ upstream = UpstreamPlays
    /\ cycleLimit = MaxCycles

\* a poller of the default configuration in front of a quiet upstream
InitQuiet ==
    /\ Started
    /\ NoLoops
    /\ NoMatch
    /\ NoRecon
    /\ NoLastfm
    /\ NoHist
    /\ NoYp
    /\ NoSingle
    /\ config = DefaultConfig
    /\ upstream = QuietUpstreamPlays
    /\ cycleLimit = MaxQuietCycles

\* a poller of the default configuration that its caller stops and starts
\* again; a call of startPolling arrives when no earlier call is suspended
InitLifecycle ==
    /\ Started
    /\ NoLoops
    /\ NoMatch
    /\ NoRecon
    /\ NoLastfm
    /\ NoHist
    /\ NoYp
    /\ NoSingle
    /\ config = DefaultConfig
    /\ upstream = LifecyclePlays
    /\ cycleLimit = MaxLifecycleCycles

\* startPolling up to its first await: the re-entry guard, the locals, the
\* flag, the first pass of the loop head and the call of getRecentlyPlayed
StartPolling ==
    /\ pc \in {"idle", "faulted"}
    /\ polling = FALSE
    /\ session < MaxSessions
    /\ cycle < cycleLimit
    /\ lastTrackPlayedAt' = clock
    /\ checkCount' = 0
    /\ polling' = TRUE
    /\ pc' = "fetch"
    /\ cycle' = cycle + 1
    /\ session' = session + 1
    /\ sessionCycle' = 0
    /\ fetched' = <<>>
    /\ emitted' = {}
    /\ delayedFor' = {}
    /\ emptyCycles' = 0
    /\ runStartSince' = 0
    /\ waited' = 0
    /\ playObjs' = <<>>
    /\ scrobbleCall' = NoCall
    /\ fetchesSorted' = TRUE
    /\ promise' = "pending"
    /\ stopSnap' = NoSnap
    /\ restartedFrom' = pc
    /\ UNCHANGED <<upstream, cycleLimit, tracksDiscovered, config, clock, now,
                   newTracksFound, closeToInterval, sleepTime>>
    /\ UNCHANGED nonPollerVars

\* a catch block that lets the error out of startPolling
Catch_Rethrow ==
    /\ polling' = FALSE
    /\ pc' = "faulted"
    /\ promise' = "rejected"

\* lines 142-146: the catch block logs the error and clears the flag; the
\* async function then returns, so its promise resolves
Catch ==
    /\ polling' = FALSE
    /\ pc' = "faulted"
    /\ promise' = "resolved"

\* an external stop: this.polling is set to false from outside the loop
Stop ==
    /\ polling = TRUE
    /\ polling' = FALSE
    /\ stopSnap' = IF pc = "fetch"
                   THEN [taken |-> TRUE, lastTrackPlayedAt |-> lastTrackPlayedAt,
                         checkCount |-> checkCount,
                         tracksDiscovered |-> tracksDiscovered]
                   ELSE stopSnap
    /\ UNCHANGED <<upstream, cycleLimit, pc, tracksDiscovered, config, clock,
                   lastTrackPlayedAt, checkCount, now, playObjs, newTracksFound,
                   closeToInterval, sleepTime, scrobbleCall, fetched, cycle,
                   session, sessionCycle, emitted, delayedFor, waited,
                   emptyCycles, runStartSince, fetchesSorted, promise,
                   restartedFrom>>
    /\ UNCHANGED nonPollerVars

\* a call of scrobble that keeps checkCount when the fetch held a new play
CallScrobble_NoReset(count, found, close, t, nth) ==
    /\ checkCount' = count
    /\ scrobbleCall' = [forceRefresh |-> close, at |-> t, cycle |-> nth,
                        scrobbleFrom |-> Identifier, scrobbleTo |-> Clients]
    /\ pc' = "scrobble"

\* lines 101-115: the reset of checkCount on a discovery and the call of
\* allClients.scrobble, at time t
CallScrobble(count, found, close, t, nth) ==
    /\ checkCount' = IF found = FALSE THEN count ELSE 0
    /\ scrobbleCall' = [forceRefresh |-> close, at |-> t, cycle |-> nth,
                        scrobbleFrom |-> Identifier, scrobbleTo |-> Clients]
    /\ pc' = "scrobble"

\* getRecentlyPlayed resolves with list: the cycle up to its next await, which
\* is the close-to-interval sleep or the call of allClients.scrobble
FetchReturns(list) ==
    /\ pc = "fetch"
    /\ LET info == PlayInfo(list, lastTrackPlayedAt, clock)
       IN  /\ now' = clock
           /\ newTracksFound' = info.newTracksFound
           /\ closeToInterval' = info.closeToInterval
           /\ IF info.threw
              THEN /\ Catch
                   /\ playObjs' = list
                   /\ checkCount' = checkCount + 1
                   /\ UNCHANGED <<lastTrackPlayedAt, scrobbleCall>>
              ELSE /\ playObjs' = info.plays
                   /\ lastTrackPlayedAt' = info.lastTrackPlayedAt
                   /\ UNCHANGED <<polling, promise>>
                   /\ IF info.closeToInterval
                      THEN /\ pc' = "delay"
                           /\ checkCount' = checkCount + 1
                           /\ UNCHANGED scrobbleCall
                      ELSE CallScrobble(checkCount + 1, info.newTracksFound,
                                        info.closeToInterval, clock, sessionCycle + 1)
    /\ fetched' = list
    /\ sessionCycle' = sessionCycle + 1
    /\ waited' = 0
    /\ fetchesSorted' = (fetchesSorted /\ OldestFirst(list))
    /\ UNCHANGED <<upstream, cycleLimit, tracksDiscovered, config, clock,
                   sleepTime, cycle, session, emitted, delayedFor, emptyCycles,
                   runStartSince, stopSnap, restartedFrom>>
    /\ UNCHANGED nonPollerVars

\* getRecentlyPlayed rejects: the catch block
FetchThrows ==
    /\ pc = "fetch"
    /\ Catch
    /\ UNCHANGED <<upstream, cycleLimit, tracksDiscovered, config, clock,
                   lastTrackPlayedAt, checkCount, now, playObjs, newTracksFound, closeToInterval, sleepTime,
                   scrobbleCall, fetched, cycle, session, sessionCycle, emitted,
                   delayedFor, waited, emptyCycles, runStartSince, fetchesSorted,
                   stopSnap, restartedFrom>>
    /\ UNCHANGED nonPollerVars

\* await sleep(10 * 1000) resolves
CloseDelayDone ==
    /\ pc = "delay"
    /\ clock' = clock + CloseDelaySec
    /\ waited' = CloseDelaySec
    /\ CallScrobble(checkCount, newTracksFound, closeToInterval, clock', sessionCycle)
    /\ UNCHANGED <<upstream, cycleLimit, polling, tracksDiscovered, config,
                   lastTrackPlayedAt, now, playObjs, newTracksFound, closeToInterval, sleepTime, fetched,
                   cycle, session, sessionCycle, emitted, delayedFor, emptyCycles,
                   runStartSince, fetchesSorted, promise, stopSnap, restartedFrom>>
    /\ UNCHANGED nonPollerVars

\* allClients.scrobble resolves with n accepted plays: lines 117-139, up to
\* the inter-cycle sleep
ScrobbleReturns(n) ==
    /\ pc = "scrobble"
    /\ n <= Len(playObjs)
    /\ tracksDiscovered + n <= MaxDiscovered
    /\ LET count == IF n > 0 THEN 0 ELSE checkCount
       IN  /\ checkCount' = count
           /\ sleepTime' = SleepTime(Interval(config), count, now, lastTrackPlayedAt)
    /\ tracksDiscovered' = tracksDiscovered + n
    /\ emptyCycles' = IF newTracksFound \/ n > 0 THEN 0 ELSE emptyCycles + 1
    /\ runStartSince' = IF newTracksFound \/ n > 0 THEN 0
                        ELSE IF emptyCycles = 0 THEN Abs(now - lastTrackPlayedAt)
                        ELSE runStartSince
    /\ pc' = "sleep"
    /\ UNCHANGED <<upstream, cycleLimit, polling, config, clock,
                   lastTrackPlayedAt, now, playObjs, newTracksFound, closeToInterval, scrobbleCall, fetched, cycle,
                   session, sessionCycle, emitted, delayedFor, waited,
                   fetchesSorted, promise, stopSnap, restartedFrom>>
    /\ UNCHANGED nonPollerVars

\* allClients.scrobble rejects: the catch block
ScrobbleThrows ==
    /\ pc = "scrobble"
    /\ Catch
    /\ UNCHANGED <<upstream, cycleLimit, tracksDiscovered, config, clock,
                   lastTrackPlayedAt, checkCount, now, playObjs, newTracksFound, closeToInterval, sleepTime,
                   scrobbleCall, fetched, cycle, session, sessionCycle, emitted,
                   delayedFor, waited, emptyCycles, runStartSince, fetchesSorted,
                   stopSnap, restartedFrom>>
    /\ UNCHANGED nonPollerVars

\* await sleep(sleepTime * 1000) resolves: the loop head and the next call of
\* getRecentlyPlayed
SleepDone ==
    /\ pc = "sleep"
    /\ cycle < cycleLimit
    /\ clock' = clock + sleepTime
    /\ IF polling = FALSE
       THEN pc' = "idle" /\ UNCHANGED cycle
       ELSE pc' = "fetch" /\ cycle' = cycle + 1
    /\ playObjs' = <<>>
    /\ emitted' = emitted \cup NewPlays(playObjs)
    /\ delayedFor' = delayedFor \cup
          (IF waited > 0
           THEN {p \in NewPlays(playObjs) : IsClose(now, p.playDate)}
           ELSE {})
    /\ promise' = IF polling = FALSE THEN "resolved" ELSE promise
    /\ UNCHANGED <<upstream, cycleLimit, polling, tracksDiscovered, config,
                   lastTrackPlayedAt, checkCount, now, newTracksFound,
                   closeToInterval, sleepTime, scrobbleCall, fetched, session,
                   sessionCycle, waited, emptyCycles, runStartSince, fetchesSorted,
                   stopSnap, restartedFrom>>
    /\ UNCHANGED nonPollerVars

\* ------------------------------------------------- overlapping invocations

\* Several calls of startPolling on one poller, each followed through its
\* awaits; they share this.polling and nothing else (lastTrackPlayedAt and
\* checkCount are locals of the call).

\* everything of the single poller but this.polling
pollerRest == <<upstream, cycleLimit, pc, tracksDiscovered, config, clock,
                lastTrackPlayedAt, checkCount, now, playObjs, newTracksFound,
                closeToInterval, sleepTime, scrobbleCall, fetched, cycle,
                session, sessionCycle, emitted, delayedFor, waited,
                emptyCycles, runStartSince, fetchesSorted, promise, stopSnap,
                restartedFrom>>

\* everything but this.polling and the overlapping calls
loopRest == <<pollerRest, matchVars, reconVars, lastfmVars, sideVars>>

\* the calls whose loop is suspended in one of its awaits
LiveLoops == {i \in 1..MaxLoops : loopPc[i] \in {"fetch", "delay", "scrobble", "sleep"}}

\* a guard that also refuses while an earlier call is still suspended
LoopStartGuard_NoLiveLoop == polling = TRUE \/ LiveLoops # {}

\* lines 46-48: the call returns at once when the flag is set
LoopStartGuard == polling = TRUE

\* the i-th call of startPolling up to its first await: refused by the guard
\* of lines 46-48, or the flag is set and getRecentlyPlayed is called
LoopStart(i) ==
    /\ loopPc[i] = "none"
    /\ \A j \in 1..(i - 1) : loopPc[j] # "none"
    /\ IF LoopStartGuard
       THEN loopPc' = [loopPc EXCEPT ![i] = "refused"] /\ UNCHANGED polling
       ELSE loopPc' = [loopPc EXCEPT ![i] = "fetch"] /\ polling' = TRUE
    /\ UNCHANGED <<stoppedAsleep, loopRest>>

\* an external stop while calls are suspended
LoopStop ==
    /\ polling = TRUE
    /\ polling' = FALSE
    /\ stoppedAsleep' = stoppedAsleep \cup {i \in 1..MaxLoops : loopPc[i] = "sleep"}
    /\ UNCHANGED <<loopPc, loopRest>>

\* getRecentlyPlayed of call i resolves: lines 61-115, to the close-to-interval
\* delay or to the call of allClients.scrobble
LoopFetchReturns(i, close) ==
    /\ loopPc[i] = "fetch"
    /\ loopPc' = [loopPc EXCEPT ![i] = IF close THEN "delay" ELSE "scrobble"]
    /\ UNCHANGED <<polling, stoppedAsleep, loopRest>>

\* getRecentlyPlayed or allClients.scrobble of call i rejects: the catch block
LoopThrows(i) ==
    /\ loopPc[i] \in {"fetch", "scrobble"}
    /\ loopPc' = [loopPc EXCEPT ![i] = "faulted"]
    /\ polling' = FALSE
    /\ UNCHANGED <<stoppedAsleep, loopRest>>

\* the close-to-interval delay of call i is over: allClients.scrobble is called
LoopCloseDelayDone(i) ==
    /\ loopPc[i] = "delay"
    /\ loopPc' = [loopPc EXCEPT ![i] = "scrobble"]
    /\ UNCHANGED <<polling, stoppedAsleep, loopRest>>

\* allClients.scrobble of call i resolves: the inter-cycle sleep begins
LoopScrobbleReturns(i) ==
    /\ loopPc[i] = "scrobble"
    /\ loopPc' = [loopPc EXCEPT ![i] = "sleep"]
    /\ UNCHANGED <<polling, stoppedAsleep, loopRest>>

\* the inter-cycle sleep of call i is over: the loop head of lines 54-58 and
\* the next call of getRecentlyPlayed
LoopSleepDone(i) ==
    /\ loopPc[i] = "sleep"
    /\ loopPc' = [loopPc EXCEPT ![i] = IF polling = FALSE THEN "stopped" ELSE "fetch"]
    /\ UNCHANGED <<polling, stoppedAsleep, loopRest>>

NextOverlap ==
    \/ \E i \in 1..MaxLoops : LoopStart(i)
    \/ LoopStop
    \/ \E i \in 1..MaxLoops, close \in BOOLEAN : LoopFetchReturns(i, close)
    \/ \E i \in 1..MaxLoops : LoopThrows(i)
    \/ \E i \in 1..MaxLoops : LoopCloseDelayDone(i)
    \/ \E i \in 1..MaxLoops : LoopScrobbleReturns(i)
    \/ \E i \in 1..MaxLoops : LoopSleepDone(i)

\* a poller whose caller starts and stops it at any moment
InitOverlap ==
    /\ Started
    /\ NoLoops
    /\ NoMatch
    /\ NoRecon
    /\ NoLastfm
    /\ NoHist
    /\ NoYp
    /\ NoSingle
    /\ config = DefaultConfig
    /\ upstream = {}
    /\ cycleLimit = 0

\* ----------------------------------------------------- comparison of plays

\* any two plays are handed to playObjDataMatch
InitMatch ==
    /\ Started
    /\ NoLoops
    /\ NoRecon
    /\ NoLastfm
    /\ NoHist
    /\ NoYp
    /\ NoSingle
    /\ config = DefaultConfig
    /\ upstream = {}
    /\ cycleLimit = 0
    /\ matchA \in MatchPlays
    /\ matchB \in MatchPlays
    /\ matchDone = FALSE
    /\ matchResult = FALSE

\* playObjDataMatch(matchA, matchB) returns
ComparePlays ==
    /\ matchDone = FALSE
    /\ matchDone' = TRUE
    /\ matchResult' = PlayObjDataMatch(matchA, matchB)
    /\ UNCHANGED <<matchA, matchB, loopPc, stoppedAsleep, polling, pollerRest,
                   reconVars, lastfmVars, sideVars>>

NextMatch == ComparePlays

\* ------------------------------------------- YouTube Music recent window

\* A history list is a sequence of track ids (the stable key of a play),
\* newest first, without repetition.

\* the tracks of the upstream history
YTTracks == {"A", "B", "C", "D"}

\* the history lists the upstream may return: one longer than the window
HistoryLists == SeqsUpTo(YTTracks, MaxWindow + 1)

\* history lists of five tracks, longer than the window
LongLists == {<<"A", "B", "C", "D", "E">>, <<"E", "D", "C", "B", "A">>}

\* the history lists a call may fetch
FetchedLists == HistoryLists \cup LongLists

\* a source that takes the whole list for its window
Slice_All(list, n) == list

\* listPlays.slice(0, 20)
Slice(list, n) == SubSeq(list, 1, Min(Len(list), n))

\* [...list].reverse()
Reverse(list) == [i \in 1..Len(list) |-> list[Len(list) + 1 - i]]

Items(list) == {list[i] : i \in 1..Len(list)}

\* list without the items of S, in the order of list
Without(list, S) == SelectSeq(list, LAMBDA x : x \notin S)

\* playsAreSortConsistent: current holds nothing new and nothing moved; it is
\* previous, or previous with items left out, in the order of previous
PlaysAreSortConsistent(previous, current) ==
    /\ Items(current) \subseteq Items(previous)
    /\ current = Without(previous, Items(previous) \ Items(current))

\* the numbers k such that current is previous with the first k items of
\* current moved to the newest end
BumpCounts(previous, current) ==
    {k \in 1..Len(current) :
        LET moved == Items(SubSeq(current, 1, k))
        IN  Without(current, moved) = Without(previous, moved)}

\* playsAreBumpedOnly: [is bumped only, the bumped plays in the order of
\* current]; the two lists hold the same plays and differ in order only
PlaysAreBumpedOnly(previous, current) ==
    IF /\ Len(previous) = Len(current)
       /\ Items(previous) = Items(current)
       /\ previous # current
    THEN LET ks == BumpCounts(previous, current)
             k == CHOOSE n \in ks : \A m \in ks : n <= m
         IN  <<TRUE, SubSeq(current, 1, k)>>
    ELSE <<FALSE, <<>>>>

\* playsAreAddedOnly: [is added only, the added plays in the order of
\* current]; current is previous with plays it did not hold put in front
PlaysAreAddedOnly(previous, current) ==
    LET n == Len(current) - Len(previous)
    IN  IF /\ n >= 0
           /\ SubSeq(current, n + 1, Len(current)) = previous
           /\ Items(SubSeq(current, 1, n)) \cap Items(previous) = {}
        THEN <<TRUE, SubSeq(current, 1, n)>>
        ELSE <<FALSE, <<>>>>

\* a source that never returns before the other comparisons
ReturnsEarly_Never(recent, plays) == FALSE

\* lines 281-283: if (playsAreSortConsistent(...)) return newPlays
ReturnsEarly(recent, plays) == PlaysAreSortConsistent(recent, plays)

\* a source that hands the added plays on as they stand in the history
AddedNewPlays_Unreversed(added) == added

\* line 292: newPlays = [...addResults[1]].reverse()
AddedNewPlays(added) == Reverse(added)

\* a source that forgets its window
ReplaceWindow_Empty(recent, plays) == <<>>

\* a source that keeps its old window
ReplaceWindow_Keep(recent, plays) == recent

\* line 311: this.recentlyPlayed = plays
ReplaceWindow(recent, plays) == plays

\* a source that adds the seconds to the instant itself
Stamp_NoTruncate(ids, t) ==
    [i \in 1..Len(ids) |->
        [trackId |-> ids[i], playDate |-> t + i, newFromSource |-> TRUE]]

\* lines 313-322: playDate = dayjs().startOf('minute').add(index + 1, 's')
\* and newFromSource = true, for the play of every id of ids
Stamp(ids, t) ==
    [i \in 1..Len(ids) |->
        [trackId |-> ids[i], playDate |-> (t - (t % 60)) + i, newFromSource |-> TRUE]]

\* a source that never takes an order for inconsistent
WarnsInconsistent_Never(bumped, added) == FALSE

\* lines 286-296: warnMsg is set when the list is neither bumped only nor
\* added only
WarnsInconsistent(bumped, added) == bumped = FALSE /\ added = FALSE

\* a source that hands the whole list on when its order is inconsistent
InconsistentNewPlays_All(plays) == plays

\* lines 263 and 293-295: in the else branch newPlays stays the empty list
InconsistentNewPlays(plays) == <<>>

\* the instants at which the source is asked for its history
PollTimes == {0, 125}

\* YTMusicSource.getRecentlyPlayed from the history list on: what it returns,
\* the window it leaves and the comparisons it evaluated
GetRecentlyPlayed(recent, listPlays, isPolling, t) ==
    LET plays == Slice(listPlays, MaxWindow)
    IN  IF isPolling = FALSE
        THEN [newPlays |-> [i \in 1..Len(plays) |-> UndatedPlay(plays[i])],
              recentlyPlayed |-> plays,
              evaluated |-> {},
              warned |-> FALSE]
        ELSE IF ReturnsEarly(recent, plays)
        THEN [newPlays |-> <<>>,
              recentlyPlayed |-> recent,
              evaluated |-> {"playsAreSortConsistent"},
              warned |-> FALSE]
        ELSE LET bumpResults == PlaysAreBumpedOnly(recent, plays)
                 addResults == PlaysAreAddedOnly(recent, plays)
                 found == IF bumpResults[1] THEN bumpResults[2]
                          ELSE IF addResults[1] THEN AddedNewPlays(addResults[2])
                          ELSE InconsistentNewPlays(plays)
             IN  [newPlays |-> Stamp(found, t),
                  recentlyPlayed |-> ReplaceWindow(recent, plays),
                  evaluated |-> {"playsAreSortConsistent", "playsAreBumpedOnly"} \cup
                                (IF bumpResults[1] THEN {} ELSE {"playsAreAddedOnly"}),
                  warned |-> WarnsInconsistent(bumpResults[1], addResults[1])]

\* one call of getRecentlyPlayed that the upstream answers with list
CallGetRecentlyPlayed(list, kind, t) ==
    LET r == GetRecentlyPlayed(recentlyPlayed, list, polling, t)
    IN  /\ newPlays' = r.newPlays
        /\ recentlyPlayed' = r.recentlyPlayed
        /\ ytEvaluated' = r.evaluated
        /\ ytPrev' = recentlyPlayed
        /\ ytCur' = Slice(list, MaxWindow)
        /\ ytList' = list
        /\ ytCall' = kind
        /\ ytWarned' = r.warned
        /\ ytNow' = t

\* onPollPostAuthCheck: the window is hydrated once, before polling starts;
\* this call does not read the time
YTHydrate(list) ==
    /\ polling = FALSE
    /\ ytCall = "none"
    /\ CallGetRecentlyPlayed(list, "hydrate", ytNow)
    /\ UNCHANGED <<polling, pollerRest, loopPc, stoppedAsleep, matchVars,
                   lastfmVars, sideVars>>

\* polling starts: the flag is set
YTStartPolling ==
    /\ polling = FALSE
    /\ polling' = TRUE
    /\ UNCHANGED <<pollerRest, loopPc, stoppedAsleep, matchVars, reconVars,
                   lastfmVars, sideVars>>

\* a cycle of the polling loop calls getRecentlyPlayed
YTPoll(list, t) ==
    /\ polling = TRUE
    /\ t >= ytNow
    /\ CallGetRecentlyPlayed(list, "poll", t)
    /\ UNCHANGED <<polling, pollerRest, loopPc, stoppedAsleep, matchVars,
                   lastfmVars, sideVars>>

NextRecon ==
    \/ \E list \in FetchedLists : YTHydrate(list)
    \/ YTStartPolling
    \/ \E list \in FetchedLists, t \in PollTimes : YTPoll(list, t)

\* a YouTube Music source that is hydrated and then polled
InitRecon ==
    /\ Started
    /\ NoLoops
    /\ NoMatch
    /\ NoRecon
    /\ NoLastfm
    /\ NoHist
    /\ NoYp
    /\ NoSingle
    /\ config = DefaultConfig
    /\ upstream = {}
    /\ cycleLimit = 0

\* ------------------------------------------------------ the Last.fm source

\* longest track list one answer of user.getRecentTracks holds
MaxLfItems == 3
\* calls of getRecentlyPlayed over one run of the model
MaxLfFetches == 2

\* the constructor's default of config.data.interval, in seconds
LastfmInterval == 15

\* a TrackObject with date.uts
RawTrack(name, uts) ==
    [name |-> name, uts |-> uts, nowplaying |-> FALSE, broken |-> FALSE]

\* a TrackObject with @attr.nowplaying: Last.fm gives it no date
RawNowPlaying(name) == [name |-> name, nowplaying |-> TRUE, broken |-> FALSE]

\* a TrackObject without a date that is not marked as playing
RawUndated(name) == [name |-> name, nowplaying |-> FALSE, broken |-> FALSE]

\* a TrackObject that formatPlayObj cannot format
RawBroken(name) == [name |-> name, nowplaying |-> FALSE, broken |-> TRUE]

\* the items the upstream may put in its answers
LfItems == {RawTrack("a", 40), RawTrack("b", 70),
            RawNowPlaying("n"), RawUndated("u"), RawBroken("x")}

\* the track lists of the answers
LfResponses == SeqsUpTo(LfItems, MaxLfItems)

\* LastfmApiClient.formatPlayObj on an item it can format: playDate from
\* date.uts when there is one, meta.nowPlaying from @attr.nowplaying
FormatPlayObj(x) ==
    IF "uts" \in DOMAIN x
    THEN [track |-> x.name, playDate |-> x.uts, nowPlaying |-> x.nowplaying]
    ELSE [track |-> x.name, nowPlaying |-> x.nowplaying]

\* a reducer without the try and without the test of playDate: the item
\* that cannot be formatted, or has no date, ends the call with its error
ReduceItem_Throws(acc, x, t) ==
    IF x.broken \/ ("uts" \notin DOMAIN x /\ ~x.nowplaying)
    THEN [acc EXCEPT !.threw = TRUE]
    ELSE LET formatted == FormatPlayObj(x)
         IN  IF ~HasPlayDate(formatted)
             THEN [acc EXCEPT !.plays = Append(@, formatted @@ [playDate |-> t])]
             ELSE [acc EXCEPT !.plays = Append(@, formatted)]

\* lines 238-264: the reducer's step on the item x at the instant t; an
\* item formatPlayObj throws on is logged and left out, an item without
\* play date gets dayjs() when it is now playing and is logged and left out
\* when it is not
ReduceItem(acc, x, t) ==
    IF x.broken
    THEN [acc EXCEPT !.warned = @ \cup {x.name}]
    ELSE LET formatted == FormatPlayObj(x)
         IN  IF ~HasPlayDate(formatted)
             THEN IF formatted.nowPlaying = TRUE
                  THEN [acc EXCEPT !.plays =
                           Append(@, formatted @@ [playDate |-> t])]
                  ELSE [acc EXCEPT !.warned = @ \cup {x.name}]
             ELSE [acc EXCEPT !.plays = Append(@, formatted)]

RECURSIVE ReduceFrom(_, _, _, _)
\* list.reduce(..., []) from the item at index i on
ReduceFrom(list, i, acc, t) ==
    IF i > Len(list) \/ acc.threw
    THEN acc
    ELSE ReduceFrom(list, i + 1, ReduceItem(acc, list[i], t), t)

\* list.reduce(..., [])
ReduceList(list, t) ==
    ReduceFrom(list, 1, [plays |-> <<>>, warned |-> {}, threw |-> FALSE], t)

RECURSIVE OldestFirstOrders(_, _)
\* the orders of the plays at the places S of plays that begin with an
\* oldest one and go on with such an order of the others
OldestFirstOrders(plays, S) ==
    IF S = {}
    THEN {<<>>}
    ELSE UNION {{<<plays[k]>> \o rest : rest \in OldestFirstOrders(plays, S \ {k})} :
                   k \in {m \in S : \A l \in S : plays[m].playDate <= plays[l].playDate}}

\* .sort(sortByOldestPlayDate): the orders of plays in which no play stands
\* before an older one; which of them the sort gives for equal play dates is
\* left open
SortedByOldestPlayDate(plays) == OldestFirstOrders(plays, 1..Len(plays))

\* a filter that lets every play through
History_All(plays) == plays

\* line 269: plays.filter(x => x.meta.nowPlaying !== true)
History(plays) == SelectSeq(plays, LAMBDA x : x.nowPlaying # TRUE)

\* line 270: plays.filter(x => x.meta.nowPlaying === true)
NowPlaying(plays) == SelectSeq(plays, LAMBDA x : x.nowPlaying = TRUE)

\* getRecentlyPlayed, one interval after the call before it, when
\* user.getRecentTracks answers with list: history is returned, now goes to
\* processRecentPlays
LfFetchReturns(list) ==
    /\ lfFetches < MaxLfFetches
    /\ lfFetches' = lfFetches + 1
    /\ lfClock' = lfClock + LastfmInterval
    /\ lfResp' = list
    /\ LET acc == ReduceList(list, lfClock')
       IN  /\ lfWarned' = acc.warned
           /\ lfThrew' = acc.threw
           /\ IF acc.threw
              THEN lfHistory' = <<>> /\ lfNow' = <<>>
              ELSE \E plays \in SortedByOldestPlayDate(acc.plays) :
                      /\ lfHistory' = History(plays)
                      /\ lfNow' = NowPlaying(plays)
    /\ UNCHANGED <<polling, pollerRest, loopPc, stoppedAsleep, matchVars,
                   reconVars, sideVars>>

\* getRecentlyPlayed when the call of the API rejects: lines 275-281 throw
\* the error on
LfFetchThrows ==
    /\ lfFetches < MaxLfFetches
    /\ lfFetches' = lfFetches + 1
    /\ lfClock' = lfClock + LastfmInterval
    /\ lfResp' = <<>>
    /\ lfWarned' = {}
    /\ lfThrew' = TRUE
    /\ lfHistory' = <<>>
    /\ lfNow' = <<>>
    /\ UNCHANGED <<polling, pollerRest, loopPc, stoppedAsleep, matchVars,
                   reconVars, sideVars>>

NextLastfm ==
    \/ \E list \in LfResponses : LfFetchReturns(list)
    \/ LfFetchThrows

\* a Last.fm source that is asked for its recent plays
InitLastfm ==
    /\ Started
    /\ NoLoops
    /\ NoMatch
    /\ NoRecon
    /\ NoLastfm
    /\ NoHist
    /\ NoYp
    /\ NoSingle
    /\ config = DefaultConfig
    /\ upstream = {}
    /\ cycleLimit = 0

\* ------------------------------------------- backfill of historical plays

\* longest batch of backlogged plays
MaxBatch == 3

\* the plays of the backlog, by what makes two records the same play
HistIds == {"p", "q", "r"}

\* a backlogged play as getBackloggedPlays hands it over
HistPlay(id) == [id |-> id, historical |-> FALSE]

RECURSIVE BatchesUpTo(_)
\* the batches of at most n plays; a play may stand in a batch more than once
BatchesUpTo(n) ==
    IF n = 0 THEN {<<>>}
    ELSE LET shorter == BatchesUpTo(n - 1)
         IN  shorter \cup {Append(b, HistPlay(id)) : b \in shorter, id \in HistIds}

\* this.existingDiscovered(play) is not undefined: a play discovered before
\* is the same play
ExistingDiscovered(discovered, play) == play.id \in discovered

\* a loop that keeps the result of timePassesScrobbleThreshold
ThresholdPasses_Kept(passes) == passes

\* line 424: thresholdResults.passes = true, whatever the threshold said
ThresholdPasses(passes) == TRUE

\* lines 403-406: play.meta = {...play.meta, historical: true}
MarkHistorical(play) == [play EXCEPT !.historical = TRUE]

RECURSIVE HistoricalLoop(_, _, _, _, _)
\* lines 401-434: the loop from the play at place i on; acc is
\* newHistoricalPlays. The discovered plays are read and not written
HistoricalLoop(plays, i, failing, discovered, acc) ==
    IF i > Len(plays)
    THEN acc
    ELSE LET play == MarkHistorical(plays[i])
             passes == ThresholdPasses(i \notin failing)
         IN  HistoricalLoop(plays, i + 1, failing, discovered,
                 IF passes /\ ~ExistingDiscovered(discovered, play)
                 THEN Append(acc, play)
                 ELSE acc)

\* lines 437-444: discover and then scrobble when there are new plays
HistoricalCalls(newHistoricalPlays) ==
    IF Len(newHistoricalPlays) > 0 THEN <<"discover", "scrobble">> ELSE <<>>

\* processHistoricalPlays(plays), the threshold failing at the places failing
ProcessHistoricalPlays(plays, failing) ==
    /\ hsDone = FALSE
    /\ hsDone' = TRUE
    /\ hsInput' = [i \in 1..Len(plays) |-> MarkHistorical(plays[i])]
    /\ hsFailing' = failing
    /\ hsReturned' = HistoricalLoop(plays, 1, failing, hsDiscovered, <<>>)
    /\ hsCalls' = HistoricalCalls(hsReturned')
    /\ UNCHANGED <<hsDiscovered, polling, pollerRest, loopPc, stoppedAsleep,
                   matchVars, reconVars, lastfmVars, ypVars, singleVars>>

NextHistorical ==
    \E plays \in BatchesUpTo(MaxBatch) :
        \E failing \in SUBSET (1..Len(plays)) : ProcessHistoricalPlays(plays, failing)

\* a Last.fm source with some plays discovered, before its backlog is processed
InitHistorical ==
    /\ Started
    /\ NoLoops
    /\ NoMatch
    /\ NoRecon
    /\ NoLastfm
    /\ NoYp
    /\ NoSingle
    /\ hsDiscovered \in SUBSET HistIds
    /\ hsInput = <<>>
    /\ hsFailing = {}
    /\ hsReturned = <<>>
    /\ hsCalls = <<>>
    /\ hsDone = FALSE
    /\ config = DefaultConfig
    /\ upstream = {}
    /\ cycleLimit = 0

\* ------------------------- the polling loop over the YouTube Music source

\* cycles of the loop over one run of the model
MaxYpCycles == 3

\* the history lists of this model: three tracks
YpLists == SeqsUpTo({"A", "B", "C"}, MaxWindow)

\* the instants at which startPolling may be called: on the minute 120 and
\* five seconds into it
StartInstants == {120, 125}

\* onPollPostAuthCheck: the window is hydrated before polling starts
YpHydrate(list) ==
    /\ ypPc = "new"
    /\ ypPc' = "hydrated"
    /\ ypWindow' = GetRecentlyPlayed(ypWindow, list, FALSE, ypNow).recentlyPlayed
    /\ UNCHANGED <<ypCursor, ypCursorBefore, ypNow, ypNew, ypFound, ypCycles>>
    /\ UNCHANGED <<polling, pollerRest, loopPc, stoppedAsleep, matchVars,
                   reconVars, lastfmVars, histVars,
                   singleVars>>

\* startPolling at the instant t: lines 50-53, lastTrackPlayedAt = dayjs()
YpStartPolling(t) ==
    /\ ypPc = "hydrated"
    /\ ypPc' = "polling"
    /\ ypCursor' = t
    /\ ypCursorBefore' = t
    /\ ypNow' = t
    /\ UNCHANGED <<ypWindow, ypNew, ypFound, ypCycles>>
    /\ UNCHANGED <<polling, pollerRest, loopPc, stoppedAsleep, matchVars,
                   reconVars, lastfmVars, histVars,
                   singleVars>>

\* one cycle of the loop at the instant ypNow: getRecentlyPlayed of the
\* YouTube Music source on list, the reducer of lines 67-91 on what it
\* returns, and the sleep of the interval
YpCycle(list) ==
    /\ ypPc = "polling"
    /\ ypCycles < MaxYpCycles
    /\ LET r == GetRecentlyPlayed(ypWindow, list, TRUE, ypNow)
           info == PlayInfo(r.newPlays, ypCursor, ypNow)
       IN  /\ ypWindow' = r.recentlyPlayed
           /\ ypNew' = r.newPlays
           /\ ypFound' = info.newTracksFound
           /\ ypCursor' = info.lastTrackPlayedAt
    /\ ypCursorBefore' = ypCursor
    /\ ypNow' = ypNow + DefaultInterval
    /\ ypCycles' = ypCycles + 1
    /\ UNCHANGED ypPc
    /\ UNCHANGED <<polling, pollerRest, loopPc, stoppedAsleep, matchVars,
                   reconVars, lastfmVars, histVars,
                   singleVars>>

NextYTPoller ==
    \/ \E list \in YpLists : YpHydrate(list)
    \/ \E t \in StartInstants : YpStartPolling(t)
    \/ \E list \in YpLists : YpCycle(list)

\* a YouTube Music source before its hydration
InitYTPoller ==
    /\ Started
    /\ NoLoops
    /\ NoMatch
    /\ NoRecon
    /\ NoLastfm
    /\ NoHist
    /\ NoYp
    /\ NoSingle
    /\ config = DefaultConfig
    /\ upstream = {}
    /\ cycleLimit = 0

Next ==
    \/ StartPolling
    \/ \E list \in FetchResults(upstream, clock) : FetchReturns(list)
    \/ FetchThrows
    \/ CloseDelayDone
    \/ \E n \in 0..MaxFetch : ScrobbleReturns(n)
    \/ ScrobbleThrows
    \/ SleepDone

\* the poller with a caller that may stop it at any await
NextLifecycle ==
    \/ StartPolling
    \/ \E list \in FetchResults(upstream, clock) : FetchReturns(list)
    \/ FetchThrows
    \/ CloseDelayDone
    \/ \E n \in 0..MaxFetch : ScrobbleReturns(n)
    \/ ScrobbleThrows
    \/ SleepDone
    \/ Stop

Spec == Init /\ [][Next]_vars

SpecQuiet == InitQuiet /\ [][Next]_vars

SpecLifecycle == InitLifecycle /\ [][NextLifecycle]_vars

SpecOverlap == InitOverlap /\ [][NextOverlap]_vars

SpecMatch == InitMatch /\ [][NextMatch]_vars

SpecRecon == InitRecon /\ [][NextRecon]_vars

SpecLastfm == InitLastfm /\ [][NextLastfm]_vars

SpecHistorical == InitHistorical /\ [][NextHistorical]_vars

SpecYTPoller == InitYTPoller /\ [][NextYTPoller]_vars

\* ------------------------------------------------------------ properties

\* the cycle has classified its fetch: it is in the close-to-interval delay,
\* in the call of scrobble or in the inter-cycle sleep
Classified == pc \in {"delay", "scrobble", "sleep"}

\* the step in which a fetch of this session returns and is classified
ClassifyStep == pc = "fetch" /\ pc' \in {"delay", "scrobble"}

\* C1: within one session (one call of startPolling) lastTrackPlayedAt never
\* decreases, whatever list the fetch returned
C1_CursorNeverDecreases ==
    [][session' = session => lastTrackPlayedAt' >= lastTrackPlayedAt]_vars

\* C1 witness: a list that is not oldest-first was classified and moved the
\* cursor forward
C1_UnsortedFetchAdvanced ==
    /\ pc = "scrobble"
    /\ Len(playObjs) = 2
    /\ playObjs[1].playDate > playObjs[2].playDate
    /\ playObjs[2].newFromSource
    /\ lastTrackPlayedAt = playObjs[2].playDate

\* C2: after the classification the cursor is at or after the playDate of
\* every play flagged new in this cycle, for every order of the fetched list
C2_CursorCoversEveryNewPlay ==
    Classified => \A p \in NewPlays(playObjs) : lastTrackPlayedAt >= p.playDate

\* C2, for fetches that were all oldest-first
C2_CursorCoversNewPlaysOfSortedFetches ==
    (Classified /\ fetchesSorted)
        => \A p \in NewPlays(playObjs) : lastTrackPlayedAt >= p.playDate

\* C3: a fetch that returns the list of the cycle before flags no play new
\* and leaves the cursor where it was
C3_SameListIsIdempotent ==
    [][(ClassifyStep /\ sessionCycle >= 1 /\ fetched' = fetched)
          => (NewPlays(playObjs') = {} /\ lastTrackPlayedAt' = lastTrackPlayedAt)]_vars

\* C3, for fetches that were all oldest-first
C3_SameSortedListIsIdempotent ==
    [][(ClassifyStep /\ sessionCycle >= 1 /\ fetched' = fetched /\ fetchesSorted')
          => (NewPlays(playObjs') = {} /\ lastTrackPlayedAt' = lastTrackPlayedAt)]_vars

\* C4: no play (trackId and playDate) is flagged new in two cycles of one
\* session
C4_FlaggedNewAtMostOnce == NewPlays(playObjs) \cap emitted = {}

\* C4, for fetches that were all oldest-first
C4_FlaggedNewAtMostOnceOfSortedFetches ==
    fetchesSorted => NewPlays(playObjs) \cap emitted = {}

\* C5: the plays flagged new are in non-decreasing playDate order within the
\* list handed to scrobble, and never older than a play flagged new in an
\* earlier cycle of the session
C5_NewPlaysInPlayDateOrder ==
    Classified =>
        /\ \A i, j \in 1..Len(playObjs) :
              (i < j /\ playObjs[i].newFromSource /\ playObjs[j].newFromSource)
                  => playObjs[i].playDate <= playObjs[j].playDate
        /\ \A p \in NewPlays(playObjs) : \A q \in emitted : p.playDate >= q.playDate

\* C5, for fetches that were all oldest-first
C5_NewPlaysInPlayDateOrderOfSortedFetches ==
    (Classified /\ fetchesSorted) =>
        /\ \A i, j \in 1..Len(playObjs) :
              (i < j /\ playObjs[i].newFromSource /\ playObjs[j].newFromSource)
                  => playObjs[i].playDate <= playObjs[j].playDate
        /\ \A p \in NewPlays(playObjs) : \A q \in emitted : p.playDate >= q.playDate

\* C6: closeToInterval is true exactly when a play flagged new in this cycle
\* is less than 5 seconds from now; then the cycle waits 10 seconds before it
\* calls scrobble, with forceRefresh = true; otherwise it calls scrobble at
\* once, with forceRefresh = false
C6_CloseToIntervalDelaysAndForcesRefresh ==
    Classified =>
        LET close == \E p \in NewPlays(playObjs) :
                        (IF now >= p.playDate THEN now - p.playDate
                                              ELSE p.playDate - now) < 5
        IN  /\ closeToInterval = close
            /\ pc = "delay" => (close /\ scrobbleCall.cycle # sessionCycle)
            /\ pc # "delay" =>
                  /\ scrobbleCall.cycle = sessionCycle
                  /\ scrobbleCall.forceRefresh = close
                  /\ close => (waited = 10 /\ scrobbleCall.at >= now + 10)
                  /\ ~close => (waited = 0 /\ scrobbleCall.at = now)

\* C6 witness: scrobble was called with forceRefresh after the delay
C6_DelayedScrobbleCalled ==
    /\ pc = "scrobble"
    /\ closeToInterval
    /\ scrobbleCall.forceRefresh
    /\ scrobbleCall.at = now + 10

\* C7: a play whose detection made one cycle wait makes no later cycle of the
\* session wait
C7_DelayAtMostOncePerPlay ==
    (Classified /\ closeToInterval)
        => {p \in NewPlays(playObjs) : IsClose(now, p.playDate)} \cap delayedFor = {}

\* C7 witness: a play that made an earlier cycle wait is flagged new again,
\* and the cycle does not wait
C7_DelayedPlayFlaggedAgain ==
    /\ pc = "scrobble"
    /\ NewPlays(playObjs) \cap delayedFor # {}
    /\ ~closeToInterval
    /\ waited = 0

\* the interval the claims speak of: the configured one, 30 by default
ClaimedInterval == IF "interval" \in DOMAIN config THEN config.interval ELSE 30

\* the seconds between the cycle's now and the cursor
SinceLastPlay ==
    IF now >= lastTrackPlayedAt THEN now - lastTrackPlayedAt
                                ELSE lastTrackPlayedAt - now

\* C8: the sleep is min(interval*5, 300) when checkCount > 5, interval < 600
\* and |now - lastTrackPlayedAt| >= min(interval*10, 600), and the interval
\* otherwise; no backoff with an interval of 600 or more
C8_SleepTimeFormula ==
    pc = "sleep" =>
        LET i == ClaimedInterval
            trigger == IF i * 10 < 600 THEN i * 10 ELSE 600
            backedOff == IF i * 5 < 300 THEN i * 5 ELSE 300
        IN  /\ sleepTime = IF checkCount > 5 /\ i < 600 /\ SinceLastPlay >= trigger
                           THEN backedOff
                           ELSE i
            /\ i >= 600 => sleepTime = i

\* C8 witness: a cycle that backed off
C8_BackedOff ==
    /\ pc = "sleep"
    /\ checkCount > 5
    /\ sleepTime = 300
    /\ ClaimedInterval = 120

\* C9: the sleep is never shorter than the base interval
C9_SleepNeverBelowInterval == pc = "sleep" => sleepTime >= ClaimedInterval

\* a cycle of a run of empty cycles that began, after a discovery or the
\* start, with interval 30 and the last play at least 600 seconds ago, has
\* computed its sleep
InQuietRun ==
    pc = "sleep" /\ ClaimedInterval = 30 /\ emptyCycles >= 1 /\ runStartSince >= 600

C11_CheckCountCountsEmptyCycles ==
    /\ checkCount >= 0
    /\ pc = "sleep" =>
          /\ checkCount = emptyCycles
          /\ newTracksFound => checkCount = 0

\* C11 witness: a new play flagged in an earlier cycle of the session and
\* exactly two empty cycles after the last discovery
C11_TwoEmptyCyclesAfterDiscovery ==
    /\ pc = "sleep"
    /\ sessionCycle = 4
    /\ emitted # {}
    /\ checkCount = 2

C14_StoppedFetchLeavesStateAlone ==
    stopSnap.taken =>
        /\ lastTrackPlayedAt = stopSnap.lastTrackPlayedAt
        /\ checkCount = stopSnap.checkCount
        /\ tracksDiscovered = stopSnap.tracksDiscovered

\* a list holds a record without playDate
HasUndated(list) == \E i \in 1..Len(list) : ~HasPlayDate(list[i])

\* C16: a fetched record without playDate is dropped and the cycle goes on
\* with the other records: the record is not dispatched, the cursor moves
\* only to dated plays and the poller does not fault because of it
C16_InvalidRecordDropped ==
    [][(pc = "fetch" /\ sessionCycle' = sessionCycle + 1 /\ HasUndated(fetched'))
          => /\ pc' \in {"delay", "scrobble"}
             /\ polling' = polling
             /\ ~HasUndated(playObjs')
             /\ \/ lastTrackPlayedAt' = lastTrackPlayedAt
                \/ \E i \in 1..Len(fetched') :
                      /\ HasPlayDate(fetched'[i])
                      /\ lastTrackPlayedAt' = fetched'[i].playDate]_vars

\* C13: a loop that was in its inter-cycle sleep when a stop arrived fetches
\* and dispatches nothing more: it stays in the sleep until it leaves at the
\* loop head
C13_StoppedAsleepNeverFetches ==
    \A i \in stoppedAsleep : loopPc[i] \in {"sleep", "stopped"}

\* C15: at most one polling loop of a poller goes on at any time
C15_AtMostOneLoop ==
    polling = TRUE => Cardinality(LiveLoops) <= 1

\* the artists of a play as a set
ArtistSet(p) == {p.artists[i] : i \in 1..Len(p.artists)}

\* C17: two plays are the same play exactly when source and source-scoped
\* id both match, or track, album and the set of artists match; plays with
\* the same track and album and different artist sets are not the same play
C17_SamePlayIffIdOrDataMatch ==
    matchDone =>
        (matchResult <=>
            \/ /\ matchA.source = matchB.source
               /\ matchA.sourceId # "undefined"
               /\ matchA.sourceId = matchB.sourceId
            \/ /\ matchA.track = matchB.track
               /\ matchA.album = matchB.album
               /\ ArtistSet(matchA) = ArtistSet(matchB))

\* the part of C17 about artists alone: plays that playObjDataMatch takes
\* for the same play have the same set of artists
C17_DifferentArtistsNeverMatch ==
    (matchDone /\ matchResult) => ArtistSet(matchA) = ArtistSet(matchB)

\* the last call of getRecentlyPlayed was made by the polling loop
Polled == ytCall = "poll"

\* the track ids of the plays a call returned, in their order
NewPlayIds == [i \in 1..Len(newPlays) |-> newPlays[i].trackId]

\* C18: when the current list is sort-consistent with the previous window
\* the call returns no new plays, and it returns before the bumped-only and
\* the added-only comparison are evaluated
C18_SortConsistentReturnsFirst ==
    (Polled /\ PlaysAreSortConsistent(ytPrev, ytCur)) =>
        /\ newPlays = <<>>
        /\ ytEvaluated = {"playsAreSortConsistent"}

\* C18 witness: the loop polled the list it already held
C18_SameListPolled ==
    /\ Polled
    /\ ytPrev = <<"A", "B", "C">>
    /\ ytCur = <<"A", "B", "C">>
    /\ newPlays = <<>>

\* C19: when the current list is the previous window with one or more of
\* its plays moved to the newest end, exactly the moved plays are returned
\* as new and the window becomes the current list; previous [B, A, C] and
\* current [A, B, C] return [A]
C19_BumpedPlaysReturned ==
    /\ (Polled /\ PlaysAreBumpedOnly(ytPrev, ytCur)[1]) =>
          /\ NewPlayIds = PlaysAreBumpedOnly(ytPrev, ytCur)[2]
          /\ \A i \in 1..Len(newPlays) : newPlays[i].newFromSource
          /\ recentlyPlayed = ytCur
    /\ (Polled /\ ytPrev = <<"B", "A", "C">> /\ ytCur = <<"A", "B", "C">>) =>
          NewPlayIds = <<"A">>

\* C19 witness: A was played again and is returned as the one new play
C19_PromotedPlayReturned ==
    /\ Polled
    /\ ytPrev = <<"B", "A", "C">>
    /\ ytCur = <<"A", "B", "C">>
    /\ newPlays = <<[trackId |-> "A", playDate |-> 1, newFromSource |-> TRUE]>>
    /\ recentlyPlayed = <<"A", "B", "C">>

\* C20: when the current list is the previous window with one or more
\* plays it did not hold put in front, exactly these plays are returned,
\* oldest first: in the reverse of their order in the current list;
\* previous [C, D] and current [A, B, C, D] return [B, A]
C20_AddedPlaysOldestFirst ==
    /\ LET n == Len(ytCur) - Len(ytPrev)
       IN  (/\ Polled
            /\ n >= 1
            /\ SubSeq(ytCur, n + 1, Len(ytCur)) = ytPrev
            /\ \A i \in 1..n : \A j \in 1..Len(ytPrev) : ytCur[i] # ytPrev[j])
           => /\ Len(newPlays) = n
              /\ \A i \in 1..n : newPlays[i].trackId = ytCur[n + 1 - i]
    /\ (Polled /\ ytPrev = <<"C", "D">> /\ ytCur = <<"A", "B", "C", "D">>) =>
          NewPlayIds = <<"B", "A">>

\* C20 witness: B and then A were played and are returned in that order
C20_TwoAddedPlaysReturned ==
    /\ Polled
    /\ ytPrev = <<"C", "D">>
    /\ ytCur = <<"A", "B", "C", "D">>
    /\ newPlays = <<[trackId |-> "B", playDate |-> 1, newFromSource |-> TRUE],
                    [trackId |-> "A", playDate |-> 2, newFromSource |-> TRUE]>>

\* C21: when the current list is neither sort-consistent with the previous
\* window, nor the window with plays bumped only, nor the window with plays
\* added only, the call returns no new plays, logs the warning, and still
\* makes the current list its window
C21_InconsistentWarnsAndReplaces ==
    (/\ Polled
     /\ ~PlaysAreSortConsistent(ytPrev, ytCur)
     /\ ~PlaysAreBumpedOnly(ytPrev, ytCur)[1]
     /\ ~PlaysAreAddedOnly(ytPrev, ytCur)[1])
    => /\ newPlays = <<>>
       /\ ytWarned = TRUE
       /\ recentlyPlayed = ytCur

\* C21 witness: C is new and A and B changed places at the same time
C21_NewAndReorderedPolled ==
    /\ Polled
    /\ ytPrev = <<"A", "B">>
    /\ ytCur = <<"C", "B", "A">>
    /\ newPlays = <<>>
    /\ ytWarned = TRUE
    /\ recentlyPlayed = <<"C", "B", "A">>

\* C23: every play a polling call returns as new has newFromSource = true
\* and the play date (now truncated to the minute) + (k + 1) seconds, k its
\* zero-based place among the returned plays, so that the play dates of one
\* call strictly increase in the order the plays are returned
C23_StampedFromMinuteOfNow ==
    Polled =>
        /\ \A i \in 1..Len(newPlays) :
              /\ newPlays[i].newFromSource = TRUE
              /\ newPlays[i].playDate = (ytNow - (ytNow % 60)) + i
        /\ \A i, j \in 1..Len(newPlays) :
              i < j => newPlays[i].playDate < newPlays[j].playDate

\* C23 witness: two plays found 5 seconds after the minute 120 began
C23_TwoPlaysStampedAt125 ==
    /\ Polled
    /\ ytNow = 125
    /\ ytPrev = <<"C", "D">>
    /\ ytCur = <<"A", "B", "C", "D">>
    /\ newPlays = <<[trackId |-> "B", playDate |-> 121, newFromSource |-> TRUE],
                    [trackId |-> "A", playDate |-> 122, newFromSource |-> TRUE]>>

\* C24 as stated: the plays a polling call returns as new are plays of the
\* current list that the previous window did not hold
C24_EmittedOnlyUnseen ==
    Polled => Items(NewPlayIds) \subseteq (Items(ytCur) \ Items(ytPrev))

\* C24: the plays a polling call returns as new are plays of the current
\* list; they are plays the previous window did not hold whenever the
\* current list and the previous window do not hold the same plays (when
\* they do, the bumped plays of rule 2 are plays of both lists)
C24_EmittedFromCurrent ==
    Polled =>
        /\ Items(NewPlayIds) \subseteq Items(ytCur)
        /\ Items(ytCur) # Items(ytPrev) =>
              Items(NewPlayIds) \subseteq (Items(ytCur) \ Items(ytPrev))

\* C24 witness: A, a play of the window, was played again and is returned
\* as new although the window held it
C24_BumpedPlayWasInPrevious ==
    /\ Polled
    /\ ytPrev = <<"B", "A", "C", "D">>
    /\ ytCur = <<"A", "B", "C", "D">>
    /\ NewPlayIds = <<"A">>

\* C25: a polling call that is answered with the list the call before it
\* processed returns no new plays, whatever that call returned; so does a
\* polling call whose window and current list are the same list
C25_SameListAgainReturnsNothing ==
    [][/\ (/\ polling = TRUE
           /\ ytCall # "none"
           /\ ytCall' = "poll"
           /\ ytCur' = ytCur) => newPlays' = <<>>
       /\ (/\ polling = TRUE
           /\ ytCall' = "poll"
           /\ ytPrev' = ytCur') => newPlays' = <<>>]_vars

\* C25 witness: the list that became the window in an earlier call is
\* polled once more, two minutes on, and nothing is returned
C25_WindowPolledAgain ==
    /\ Polled
    /\ ytNow = 125
    /\ ytPrev = <<"D", "A", "B">>
    /\ ytCur = <<"D", "A", "B">>
    /\ recentlyPlayed = <<"D", "A", "B">>
    /\ newPlays = <<>>
    /\ ytWarned = FALSE

\* C26: in every cycle whose fetch resolves allClients.scrobble is called
\* exactly once, also for an empty list: after the classification and the
\* close-to-interval delay if there is one, before the sleep between
\* cycles, with scrobbleFrom the identifier of the poller and scrobbleTo its
\* clients; when the call returns tracksDiscovered grows by the number of
\* accepted plays, and it never decreases
C26_OneDispatchPerFetchedCycle ==
    [][/\ (pc = "fetch" /\ sessionCycle' = sessionCycle + 1) =>
              \/ pc' = "scrobble"
              \/ pc' = "delay" /\ closeToInterval'
       /\ (pc = "delay" /\ pc' # "delay") => pc' = "scrobble"
       /\ (pc # "scrobble" /\ pc' = "scrobble") =>
              /\ pc \in {"fetch", "delay"}
              /\ scrobbleCall.cycle < sessionCycle'
              /\ scrobbleCall'.cycle = sessionCycle'
              /\ scrobbleCall'.scrobbleFrom = "Source - main"
              /\ scrobbleCall'.scrobbleTo = {"client1", "client2"}
       /\ (pc # "sleep" /\ pc' = "sleep") =>
              /\ pc = "scrobble"
              /\ scrobbleCall.cycle = sessionCycle
              /\ tracksDiscovered' - tracksDiscovered \in 0..Len(playObjs)
       /\ ~(pc = "scrobble" /\ pc' = "sleep") =>
              tracksDiscovered' = tracksDiscovered]_vars

\* a call of LastfmSource.getRecentlyPlayed has returned
LfReturned == lfFetches > 0 /\ lfThrew = FALSE

\* C27: what getRecentlyPlayed of the Last.fm source returns are the dated
\* items of the answer that are not now playing: no returned play has
\* nowPlaying = true, every one has a play date, and no play stands before
\* an older one; the now-playing plays are in the list kept apart
C27_HistoryOnlyOldestFirst ==
    LfReturned =>
        /\ \A i \in 1..Len(lfHistory) :
              /\ lfHistory[i].nowPlaying # TRUE
              /\ "playDate" \in DOMAIN lfHistory[i]
        /\ \A i, j \in 1..Len(lfHistory) :
              i < j => lfHistory[i].playDate <= lfHistory[j].playDate
        /\ \A i \in 1..Len(lfNow) : lfNow[i].nowPlaying = TRUE
        /\ {lfHistory[i].track : i \in 1..Len(lfHistory)} =
              {lfResp[i].name : i \in {k \in 1..Len(lfResp) :
                  "uts" \in DOMAIN lfResp[k] /\ ~lfResp[k].nowplaying}}

\* C27 witness: the answer lists b, the playing n and the older a; a and b
\* are returned, a first, and n is kept apart
C27_HistorySortedNowApart ==
    /\ LfReturned
    /\ lfResp = <<RawTrack("b", 70), RawNowPlaying("n"), RawTrack("a", 40)>>
    /\ lfHistory = <<[track |-> "a", playDate |-> 40, nowPlaying |-> FALSE],
                     [track |-> "b", playDate |-> 70, nowPlaying |-> FALSE]>>
    /\ Len(lfNow) = 1
    /\ lfNow[1].track = "n"

\* the places of the answer whose item cannot be formatted, or has no date
\* and is not now playing
LfBadPlaces ==
    {k \in 1..Len(lfResp) :
        \/ lfResp[k].broken
        \/ "uts" \notin DOMAIN lfResp[k] /\ ~lfResp[k].nowplaying}

\* C28: an item of the answer that cannot be formatted, or that has no date
\* and is not now playing, is left out with a warning; the call does not
\* throw, and every other item of the answer is in what the call gives
C28_BadItemDroppedOthersKept ==
    (lfFetches > 0 /\ lfResp # <<>>) =>
        /\ lfThrew = FALSE
        /\ lfWarned = {lfResp[k].name : k \in LfBadPlaces}
        /\ {lfHistory[i].track : i \in 1..Len(lfHistory)} \cup
           {lfNow[i].track : i \in 1..Len(lfNow)} =
              {lfResp[k].name : k \in (1..Len(lfResp)) \ LfBadPlaces}
        /\ Len(lfHistory) + Len(lfNow) = Len(lfResp) - Cardinality(LfBadPlaces)

\* C28 witness: of the broken x, the dated a and the undated u, a is
\* returned and x and u are warned about
C28_BrokenAndUndatedDropped ==
    /\ lfResp = <<RawBroken("x"), RawTrack("a", 40), RawUndated("u")>>
    /\ lfThrew = FALSE
    /\ lfWarned = {"x", "u"}
    /\ lfHistory = <<[track |-> "a", playDate |-> 40, nowPlaying |-> FALSE]>>
    /\ lfNow = <<>>

\* C29: a now-playing play has no play date or the instant at which the
\* source first saw the track playing: a track that was playing in the
\* answer before keeps the play date it had then, and a track that was not
\* gets the instant of this call
C29_NowPlayingKeepsFirstSeen ==
    [][\A j \in 1..Len(lfNow') :
          "playDate" \in DOMAIN lfNow'[j] =>
              IF \E i \in 1..Len(lfNow) : lfNow[i].track = lfNow'[j].track
              THEN \A i \in 1..Len(lfNow) :
                      lfNow[i].track = lfNow'[j].track =>
                          lfNow'[j].playDate = lfNow[i].playDate
              ELSE lfNow'[j].playDate = lfClock']_vars

\* C30: the list handed to allClients.scrobble holds every record of the
\* fetch (every record is valid), in the order of the fetch; a record whose
\* play date is not later than the lastTrackPlayedAt the cycle began with
\* is in it as it was fetched, newFromSource included; the list is not
\* touched during the close-to-interval delay
C30_OldRecordsKeptInOrder ==
    [][/\ (pc = "fetch" /\ pc' \in {"delay", "scrobble"}) =>
              /\ Len(playObjs') = Len(fetched')
              /\ \A i \in 1..Len(fetched') :
                    /\ playObjs'[i].trackId = fetched'[i].trackId
                    /\ playObjs'[i].playDate = fetched'[i].playDate
                    /\ fetched'[i].playDate <= lastTrackPlayedAt =>
                          /\ playObjs'[i] = fetched'[i]
                          /\ playObjs'[i].newFromSource = fetched'[i].newFromSource
       /\ pc = "delay" => playObjs' = playObjs]_vars

\* C30 witness: scrobble is called with a record that was not new, as it
\* was fetched, followed by a record that was new
C30_OldRecordDispatchedBeforeNew ==
    /\ pc = "scrobble"
    /\ Len(playObjs) = 2
    /\ playObjs[1] = fetched[1]
    /\ playObjs[1].newFromSource = FALSE
    /\ playObjs[2].newFromSource = TRUE
    /\ playObjs[2].trackId = fetched[2].trackId

\* C31: processHistoricalPlays marks every play of its batch with
\* historical = true; it returns the plays of the batch that no play
\* discovered before the call matches, in the order of the batch, whether
\* the scrobble threshold passed them or not; it calls discover and then
\* scrobble when it returns a play, and neither of them when it returns none
C31_HistoricalPlaysReturnedUnlessDiscovered ==
    hsDone =>
        /\ \A i \in 1..Len(hsInput) : hsInput[i].historical = TRUE
        /\ hsReturned = SelectSeq(hsInput, LAMBDA play : play.id \notin hsDiscovered)
        /\ hsCalls = IF hsReturned # <<>> THEN <<"discover", "scrobble">> ELSE <<>>

\* C31 witness: of p, discovered before, and q, which the threshold fails,
\* q is returned, marked, and discover and scrobble are called
C31_UndiscoveredPlayBelowThresholdReturned ==
    /\ hsDone
    /\ hsDiscovered = {"p"}
    /\ hsInput = <<[id |-> "p", historical |-> TRUE], [id |-> "q", historical |-> TRUE]>>
    /\ hsFailing = {2}
    /\ hsReturned = <<[id |-> "q", historical |-> TRUE]>>
    /\ hsCalls = <<"discover", "scrobble">>

\* C35: one call of processHistoricalPlays returns, and hands to discover,
\* no play twice, also when the batch holds an undiscovered play twice
C35_NoPlayReturnedTwice ==
    hsDone =>
        \A i, j \in 1..Len(hsReturned) :
            i # j => hsReturned[i].id # hsReturned[j].id

\* C32: every play getRecentlyPlayed of the YouTube Music source returns as
\* new in a cycle of the polling loop has a play date later than the
\* lastTrackPlayedAt the cycle began with, so the loop's test finds it new,
\* also when two cycles of one clock minute both return plays
C32_StampedPlaysPassTimestampTest ==
    ypCycles > 0 =>
        /\ \A i \in 1..Len(ypNew) : ypNew[i].playDate > ypCursorBefore
        /\ ypNew # <<>> => ypFound = TRUE

\* C33: a call of getRecentlyPlayed made while polling is false makes the
\* first plays of the fetched list, as many as the window takes, the recent
\* window and returns them with newFromSource = false and without play
\* date, so that recentlyPlayedTrackIsValid holds for none of them; a first
\* polling call after it that fetches the same window returns no new play
C33_HydrationReturnsNothingValid ==
    /\ [](ytCall = "hydrate" =>
            /\ Len(recentlyPlayed) = Min(Len(ytList), MaxWindow)
            /\ \A i \in 1..Len(recentlyPlayed) : recentlyPlayed[i] = ytList[i]
            /\ Len(newPlays) = Len(recentlyPlayed)
            /\ \A i \in 1..Len(newPlays) :
                  /\ newPlays[i].trackId = ytList[i]
                  /\ newPlays[i].newFromSource = FALSE
                  /\ "playDate" \notin DOMAIN newPlays[i])
    /\ [][(/\ ytCall = "hydrate"
           /\ ytCall' = "poll"
           /\ ytCur' = recentlyPlayed) => newPlays' = <<>>]_vars

\* C33 witness: the window was hydrated from a list of five plays, of which
\* it took four, and the first poll fetched the same list
C33_HydratedListPolledAgain ==
    /\ Polled
    /\ ytPrev = <<"A", "B", "C", "D">>
    /\ ytList = <<"A", "B", "C", "D", "E">>
    /\ ytCur = <<"A", "B", "C", "D">>
    /\ recentlyPlayed = <<"A", "B", "C", "D">>
    /\ newPlays = <<>>
    /\ ytNow = 0

\* C34: playObjDataMatch gives the same answer for two plays in either
\* order: playObjDataMatch(a, b) = playObjDataMatch(b, a)
C34_MatchIsSymmetric ==
    matchDone => matchResult = PlayObjDataMatch(matchB, matchA)

\* --------------------------------------------------- makeSingle (utils.js)

\* what the generator hands to a yield: a value that is no promise, or a
\* promise
YieldKinds == {"plain", "promise"}

\* the generators the wrapper is given
Generators == UNION {[1..n -> YieldKinds] : n \in 0..MaxYields}

\* Promise.race([toPromise(n.value), localSinglePromise]) as the invocation
\* starts to await it (line 305).  toPromise of a value that is no promise is
\* fulfilled when the call returns, and its reaction is registered before the
\* one of localSinglePromise: the race takes the value.  toPromise of a
\* promise is still pending then: the race takes abortSymbol when
\* localSinglePromise holds it, and stays open otherwise.
RaceAtAwait(kind, aborted) ==
    IF kind = "plain" THEN "value"
    ELSE IF aborted THEN "abort"
    ELSE "open"

\* the loop of the wrapper from iter.next(resumeValue) to its return or to
\* its await (lines 298-305), for a generator that received n calls of next()
RunToAwait(n, aborted) ==
    IF n + 1 > Len(sgGenerator)
    THEN [pc |-> "returned", race |-> "none", nexts |-> n + 1,
          result |-> "final"]
    ELSE [pc |-> "awaiting",
          race |-> RaceAtAwait(sgGenerator[n + 1], aborted),
          nexts |-> n + 1, result |-> "none"]

\* a call of the wrapped function: it settles the promise of the invocation
\* before it with abortSymbol, makes its own promise and runs its generator
\* to the first yield
CallWrapped ==
    /\ sgStarted < MaxInvocations
    /\ LET j == sgStarted + 1
           prev == sgPreviousResolve
           run == RunToAwait(0, FALSE)
       IN  /\ sgStarted' = j
           /\ sgPreviousResolve' = j
           /\ sgAborted' = IF prev = 0 THEN sgAborted
                           ELSE sgAborted \cup {prev}
           /\ sgRace' = [i \in Invocations |->
                           IF i = j THEN run.race
                           ELSE IF i = prev /\ sgRace[i] = "open" THEN "abort"
                           ELSE sgRace[i]]
           /\ sgPc' = [sgPc EXCEPT ![j] = run.pc]
           /\ sgNexts' = [sgNexts EXCEPT ![j] = run.nexts]
           /\ sgResult' = [sgResult EXCEPT ![j] = run.result]
    /\ UNCHANGED <<sgGenerator, polling, pollerRest, loopPc, stoppedAsleep,
                   matchVars, reconVars, lastfmVars, histVars, ypVars>>

\* the promise an invocation yielded settles while its race is open: the race
\* takes the value, or the rejection
SettleYield(i, outcome) ==
    /\ sgPc[i] = "awaiting"
    /\ sgRace[i] = "open"
    /\ sgRace' = [sgRace EXCEPT ![i] = outcome]
    /\ UNCHANGED <<sgGenerator, sgStarted, sgPreviousResolve, sgAborted, sgPc,
                   sgNexts, sgResult, polling, pollerRest, loopPc,
                   stoppedAsleep, matchVars, reconVars, lastfmVars, histVars,
                   ypVars>>

\* the continuation of an invocation after its await (lines 305-312): it
\* returns takeoverSymbol on abortSymbol, and calls next() again on a value
\* or on a caught rejection
ResumeInvocation(i) ==
    /\ sgPc[i] = "awaiting"
    /\ sgRace[i] \in {"value", "error", "abort"}
    /\ LET run == IF sgRace[i] = "abort"
                  THEN [pc |-> "returned", race |-> "none",
                        nexts |-> sgNexts[i], result |-> "takeover"]
                  ELSE RunToAwait(sgNexts[i], i \in sgAborted)
       IN  /\ sgPc' = [sgPc EXCEPT ![i] = run.pc]
           /\ sgRace' = [sgRace EXCEPT ![i] = run.race]
           /\ sgNexts' = [sgNexts EXCEPT ![i] = run.nexts]
           /\ sgResult' = [sgResult EXCEPT ![i] = run.result]
    /\ UNCHANGED <<sgGenerator, sgStarted, sgPreviousResolve, sgAborted,
                   polling, pollerRest, loopPc, stoppedAsleep, matchVars,
                   reconVars, lastfmVars, histVars, ypVars>>

NextSingle ==
    \/ CallWrapped
    \/ \E i \in Invocations, outcome \in {"value", "error"} :
           SettleYield(i, outcome)
    \/ \E i \in Invocations : ResumeInvocation(i)

\* a wrapper of makeSingle around some generator, not invoked yet
InitSingle ==
    /\ Started
    /\ NoLoops
    /\ NoMatch
    /\ NoRecon
    /\ NoLastfm
    /\ NoHist
    /\ NoYp
    /\ sgGenerator \in Generators
    /\ sgStarted = 0
    /\ sgPreviousResolve = 0
    /\ sgAborted = {}
    /\ sgPc = [i \in Invocations |-> "idle"]
    /\ sgRace = [i \in Invocations |-> "none"]
    /\ sgNexts = [i \in Invocations |-> 0]
    /\ sgResult = [i \in Invocations |-> "none"]
    /\ config = DefaultConfig
    /\ upstream = {}
    /\ cycleLimit = 0

SpecSingle == InitSingle /\ [][NextSingle]_vars

\* C36: once a newer invocation of the wrapped function has started, an older
\* invocation that has not finished makes no further next() call on its
\* generator and resolves to takeoverSymbol only, and an invocation that
\* resolves to the generator's return value is the most recent one.
C36_SupersededNeverResumed ==
    [][\A i \in Invocations :
         /\ (i < sgStarted /\ sgResult[i] = "none")
               => /\ sgNexts'[i] = sgNexts[i]
                  /\ sgResult'[i] \in {"none", "takeover"}
         /\ (sgResult[i] = "none" /\ sgResult'[i] = "final")
               => i = sgStarted']_vars

====
